---- MODULE Spec2Model ----
(***************************************************************************)
(* Membership API (NestJS + TypeORM + PostgreSQL): the membership and      *)
(* membership_periods tables, the four operations of MembershipsService    *)
(* with the awaits at which other requests may interleave, and the date    *)
(* arithmetic of the lifecycle calculator (JavaScript Date semantics).     *)
(*                                                                         *)
(* A Date is modelled by its local calendar day [y, m, d] with m in 0..11  *)
(* as Date.getMonth() returns it; the time of day is carried unchanged by  *)
(* setMonth/setFullYear/setDate and is left out.                           *)
(***************************************************************************)
EXTENDS Integers, Sequences, FiniteSets, TLC

(* ---------------------------------------------------------------------- *)
(* Bounds of the model                                                     *)
(* ---------------------------------------------------------------------- *)
MaxCalcPeriods == 8     \* largest billingPeriods requested in SpecCalc
MaxCalcMemberships == 1 \* memberships created in one behaviour of SpecCalc
MaxSeqPeriods == 3      \* largest billingPeriods requested in SpecSeq
MaxSeqMemberships == 2  \* memberships created in one behaviour of SpecSeq
MaxPeriods == 2         \* largest billingPeriods requested in Spec
MaxMemberships == 1     \* memberships created in one behaviour of Spec
NumSlots == 2           \* requests in flight at the same time in Spec
MaxApiMemberships == 1  \* memberships created in one behaviour of SpecApi

(* ---------------------------------------------------------------------- *)
(* JavaScript Date                                                         *)
(* ---------------------------------------------------------------------- *)
D(y, m, d) == [y |-> y, m |-> m, d |-> d]

IsLeap(y) == (y % 4 = 0 /\ y % 100 # 0) \/ y % 400 = 0

DaysInMonth(y, m) ==
    IF m = 1 THEN (IF IsLeap(y) THEN 29 ELSE 28)
    ELSE IF m \in {3, 5, 8, 10} THEN 30 ELSE 31

RECURSIVE Carry(_, _, _)
Carry(y, m, d) ==
    IF d <= DaysInMonth(y, m) THEN D(y, m, d)
    ELSE Carry(IF m = 11 THEN y + 1 ELSE y, (m + 1) % 12, d - DaysInMonth(y, m))

\* MakeDay/MakeDate of ECMAScript for month >= 0 and day >= 1: the month
\* carries into the year, a day past the end of the month carries forward.
MakeDate(y, m, d) == Carry(y + (m \div 12), m % 12, d)

setMonth(date, month) == MakeDate(date.y, month, date.d)
setFullYear(date, year) == MakeDate(year, date.m, date.d)
setDate(date, day) == MakeDate(date.y, date.m, day)

\* The time value the relational operators compare Dates by; any strictly
\* increasing function of the calendar day gives the same comparisons.
valueOf(date) == (date.y * 12 + date.m) * 31 + date.d

(* ---------------------------------------------------------------------- *)
(* Validation bounds of billingPeriods (createMembership.dto.ts)           *)
(* ---------------------------------------------------------------------- *)
BillingIntervals == {"monthly", "yearly", "weekly"}

ValidateBillingPeriods(billingInterval, billingPeriods) ==
    /\ billingPeriods >= 1
    /\ CASE billingInterval = "weekly" -> billingPeriods <= 26
         [] billingInterval = "monthly" -> billingPeriods >= 6 /\ billingPeriods <= 12
         [] billingInterval = "yearly" -> billingPeriods <= 10
         [] OTHER -> TRUE

(* ---------------------------------------------------------------------- *)
(* Lifecycle calculator (memberships.service.ts)                           *)
(* ---------------------------------------------------------------------- *)
\* calculateValidUntil with the weekly case written setDate(billingPeriods * 7)
\* (the getDate() term dropped).
calculateValidUntil_dayOfMonthDropped(validFrom, billingInterval, billingPeriods) ==
    CASE billingInterval = "monthly" -> setMonth(validFrom, validFrom.m + billingPeriods)
      [] billingInterval = "yearly" -> setMonth(validFrom, validFrom.m + billingPeriods * 12)
      [] billingInterval = "weekly" -> setDate(validFrom, billingPeriods * 7)
      [] OTHER -> validFrom

calculateValidUntil(validFrom, billingInterval, billingPeriods) ==
    CASE billingInterval = "monthly" -> setMonth(validFrom, validFrom.m + billingPeriods)
      [] billingInterval = "yearly" -> setMonth(validFrom, validFrom.m + billingPeriods * 12)
      [] billingInterval = "weekly" -> setDate(validFrom, validFrom.d + billingPeriods * 7)
      [] OTHER -> validFrom

\* determineMembershipState with the first comparison as >= (a membership
\* starting exactly now counted as not started).
determineMembershipState_startInclusive(validFrom, validUntil, clock) ==
    IF valueOf(validFrom) >= valueOf(clock) THEN "pending"
    ELSE IF valueOf(validUntil) < valueOf(clock) THEN "expired"
    ELSE "active"

determineMembershipState(validFrom, validUntil, clock) ==
    IF valueOf(validFrom) > valueOf(clock) THEN "pending"
    ELSE IF valueOf(validUntil) < valueOf(clock) THEN "expired"
    ELSE "active"

determinePeriodState(start, end, clock) ==
    IF valueOf(start) > valueOf(clock) THEN "pending"
    ELSE IF valueOf(end) < valueOf(clock) THEN "expired"
    ELSE "active"

\* calculatePeriodEnd with a year taken as 365 days.
calculatePeriodEnd_yearAs365Days(periodStart, billingInterval) ==
    CASE billingInterval = "monthly" -> setMonth(periodStart, periodStart.m + 1)
      [] billingInterval = "yearly" -> setDate(periodStart, periodStart.d + 365)
      [] billingInterval = "weekly" -> setDate(periodStart, periodStart.d + 7)
      [] OTHER -> periodStart

calculatePeriodEnd(periodStart, billingInterval) ==
    CASE billingInterval = "monthly" -> setMonth(periodStart, periodStart.m + 1)
      [] billingInterval = "yearly" -> setFullYear(periodStart, periodStart.y + 1)
      [] billingInterval = "weekly" -> setDate(periodStart, periodStart.d + 7)
      [] OTHER -> periodStart

\* The loop of createMembershipPeriodEntities, i counting the iterations left.
RECURSIVE PeriodLoop(_, _, _, _, _, _)
PeriodLoop(periodList, periodStart, membershipId, billingInterval, i, clock) ==
    IF i = 0 THEN periodList
    ELSE LET periodEnd == calculatePeriodEnd(periodStart, billingInterval)
             periodState == determinePeriodState(periodStart, periodEnd, clock)
         IN PeriodLoop(Append(periodList,
                              [membershipId |-> membershipId,
                               start |-> periodStart,
                               end |-> periodEnd,
                               state |-> periodState]),
                       periodEnd, membershipId, billingInterval, i - 1, clock)

\* createMembershipPeriodEntities with the loop bound off by one
\* (i < billingPeriods - 1).
createMembershipPeriodEntities_oneShort(membershipId, validFrom, billingInterval, billingPeriods, clock) ==
    PeriodLoop(<<>>, validFrom, membershipId, billingInterval, billingPeriods - 1, clock)

createMembershipPeriodEntities(membershipId, validFrom, billingInterval, billingPeriods, clock) ==
    PeriodLoop(<<>>, validFrom, membershipId, billingInterval, billingPeriods, clock)

(* ---------------------------------------------------------------------- *)
(* Id assignment of the in-memory service                                  *)
(* ---------------------------------------------------------------------- *)
Max(S) == CHOOSE x \in S : \A y \in S : y <= x

\* Math.max over the ids of the stored memberships, plus one; 1 when empty.
getNextMembershipId(ids) == IF ids # {} THEN Max(ids) + 1 ELSE 1

\* Math.max over the ids of the stored periods; 0 when empty.
getMaxPeriodId(ids) == IF ids # {} THEN Max(ids) ELSE 0

(* ---------------------------------------------------------------------- *)
(* Inputs                                                                  *)
(* ---------------------------------------------------------------------- *)
NoDate == D(0, 0, 0)    \* validFrom left out of the request

\* The requests the ValidationPipe lets through to the service, with
\* billingPeriods up to max and validFrom among validFroms.
Requests(validFroms, max) ==
    {dto \in [validFrom : validFroms, billingInterval : BillingIntervals,
              billingPeriods : 1..max] :
        ValidateBillingPeriods(dto.billingInterval, dto.billingPeriods)}

CalcValidFroms ==
    {NoDate, D(2024, 0, 15), D(2023, 0, 29), D(2024, 0, 30), D(2024, 0, 31),
     D(2024, 1, 29), D(2024, 7, 31)}
CalcTimes ==
    {D(2023, 0, 1), D(2024, 0, 31), D(2024, 5, 15), D(2024, 6, 31), D(2026, 0, 1),
     D(2040, 0, 1)}

\* In Spec: weekly memberships from one day, and a clock that stands before
\* the first period, inside each of the first periods, and after the last.
ValidFroms == {D(2024, 0, 31)}
Times == {D(2024, 0, 1), D(2024, 1, 3), D(2024, 1, 10), D(2030, 0, 1)}
Weekly(requests) == {dto \in requests : dto.billingInterval = "weekly"}

Slots == 1..NumSlots

(* ---------------------------------------------------------------------- *)
(* Request bodies of POST /memberships and their validation                *)
(* (CreateMembershipDto under the ValidationPipe)                          *)
(* ---------------------------------------------------------------------- *)
MandatoryFields ==
    {"name", "recurringPrice", "paymentMethod", "billingInterval", "billingPeriods"}

\* A validFrom string that is no ISO 8601 date.
InvalidDate == D(0, 0, 32)

\* A body: the fields left out (absent) and the values of the others. Values
\* have the type the DTO declares; validFrom is NoDate when left out.
Bodies ==
    [absent : {{}} \cup {{f} : f \in MandatoryFields},
     name : {"Gold Plan"},
     recurringPrice : {-1, 0, 100, 101},
     paymentMethod : {"cash", "credit card", "paypal"},
     billingInterval : BillingIntervals \cup {"daily"},
     billingPeriods : {0, 1, 5, 6, 10, 11, 12, 13, 26, 27},
     validFrom : {NoDate, D(2024, 0, 31), InvalidDate}]

\* The bodies a client posts after its first one: a valid one-week
\* membership paid in cash at the limit, and the same one euro above it.
ValidBody ==
    [absent |-> {}, name |-> "Gold Plan", recurringPrice |-> 100,
     paymentMethod |-> "cash", billingInterval |-> "weekly", billingPeriods |-> 1,
     validFrom |-> D(2024, 0, 31)]
LaterBodies == {ValidBody, [ValidBody EXCEPT !.recurringPrice = 101]}

NoBody ==
    [absent |-> {}, name |-> "", recurringPrice |-> 0, paymentMethod |-> "",
     billingInterval |-> "", billingPeriods |-> 0, validFrom |-> NoDate]

Has(body, field) == field \notin body.absent

\* @IsNotEmpty, @IsString on name.
NameMessages(body) ==
    (IF ~Has(body, "name") \/ body.name = "" THEN {"missingMandatoryFields"} ELSE {})
    \cup (IF ~Has(body, "name") THEN {"nameMustBeAString"} ELSE {})

\* CashPriceLimitConstraint.validate with the limit itself refused.
CashPriceLimit_inclusive(body) ==
    ~(/\ Has(body, "paymentMethod") /\ body.paymentMethod = "cash"
      /\ Has(body, "recurringPrice") /\ body.recurringPrice >= 100)

\* CashPriceLimitConstraint.validate: undefined > 100 is false.
CashPriceLimit(body) ==
    ~(/\ Has(body, "paymentMethod") /\ body.paymentMethod = "cash"
      /\ Has(body, "recurringPrice") /\ body.recurringPrice > 100)

\* @IsNotEmpty, @IsNumber, @Min(0), @CashPriceLimit on recurringPrice.
RecurringPriceMessages(body) ==
    (IF ~Has(body, "recurringPrice")
     THEN {"missingMandatoryFields", "recurringPriceMustBeANumber", "negativeRecurringPrice"}
     ELSE IF body.recurringPrice < 0 THEN {"negativeRecurringPrice"} ELSE {})
    \cup (IF ~CashPriceLimit(body) THEN {"cashPriceBelow100"} ELSE {})

\* @IsNotEmpty, @IsEnum(['cash', 'credit card']) on paymentMethod.
PaymentMethodMessages(body) ==
    (IF ~Has(body, "paymentMethod") \/ body.paymentMethod = ""
     THEN {"missingMandatoryFields"} ELSE {})
    \cup (IF ~Has(body, "paymentMethod") \/ body.paymentMethod \notin {"cash", "credit card"}
          THEN {"invalidPaymentMethod"} ELSE {})

ValidInterval(body) ==
    Has(body, "billingInterval") /\ body.billingInterval \in {"monthly", "weekly", "yearly"}

\* @IsNotEmpty, @IsEnum(['monthly', 'weekly', 'yearly']) on billingInterval.
BillingIntervalMessages(body) ==
    (IF ~Has(body, "billingInterval") \/ body.billingInterval = ""
     THEN {"missingMandatoryFields"} ELSE {})
    \cup (IF ~ValidInterval(body) THEN {"invalidBillingInterval"} ELSE {})

\* ValidateBillingPeriodsConstraint.validate with the monthly lower bound
\* exclusive.
validate_monthlyExclusive(body) ==
    IF ~ValidInterval(body) THEN TRUE
    ELSE IF ~Has(body, "billingPeriods") THEN FALSE
    ELSE CASE body.billingInterval = "weekly" -> body.billingPeriods <= 26
           [] body.billingInterval = "monthly" ->
                body.billingPeriods > 6 /\ body.billingPeriods <= 12
           [] body.billingInterval = "yearly" -> body.billingPeriods <= 10

\* ValidateBillingPeriodsConstraint.validate: passes when the interval is
\* not a valid one; a comparison with undefined is false.
validate(body) ==
    IF ~ValidInterval(body) THEN TRUE
    ELSE IF ~Has(body, "billingPeriods") THEN FALSE
    ELSE CASE body.billingInterval = "weekly" -> body.billingPeriods <= 26
           [] body.billingInterval = "monthly" ->
                body.billingPeriods >= 6 /\ body.billingPeriods <= 12
           [] body.billingInterval = "yearly" -> body.billingPeriods <= 10

\* ValidateBillingPeriodsConstraint.defaultMessage.
defaultMessage(body) ==
    IF ~Has(body, "billingPeriods") \/ ~Has(body, "billingInterval")
    THEN "invalidBillingPeriods"
    ELSE CASE body.billingInterval = "monthly" /\ body.billingPeriods < 6 ->
                "billingPeriodsLessThan6Months"
           [] body.billingInterval = "monthly" /\ body.billingPeriods > 12 ->
                "billingPeriodsMoreThan12Months"
           [] body.billingInterval = "yearly" /\ body.billingPeriods > 10 ->
                "billingPeriodsMoreThan10Years"
           [] body.billingInterval = "weekly" /\ body.billingPeriods > 26 ->
                "weeklyBillingCannotExceed6Months"
           [] OTHER -> "invalidBillingPeriods"

\* @IsNotEmpty, @IsNumber, @Min(1), @ValidateBillingPeriods on billingPeriods.
BillingPeriodsMessages(body) ==
    (IF ~Has(body, "billingPeriods")
     THEN {"missingMandatoryFields", "billingPeriodsMustBeANumber",
           "billingPeriodsCannotBeLessThan1"}
     ELSE IF body.billingPeriods < 1 THEN {"billingPeriodsCannotBeLessThan1"} ELSE {})
    \cup (IF ~validate(body) THEN {defaultMessage(body)} ELSE {})

\* @IsOptional, @IsDateString on validFrom.
ValidFromMessages(body) ==
    IF body.validFrom = InvalidDate THEN {"validFromMustBeAValidDateString"} ELSE {}

\* The messages of the BadRequestException the ValidationPipe throws; none
\* when the body passes.
ValidationMessages(body) ==
    NameMessages(body) \cup RecurringPriceMessages(body) \cup PaymentMethodMessages(body)
    \cup BillingIntervalMessages(body) \cup BillingPeriodsMessages(body)
    \cup ValidFromMessages(body)

\* LegacyValidationExceptionFilter.errorPriority.
errorPriority ==
    <<"missingMandatoryFields", "negativeRecurringPrice", "cashPriceBelow100",
      "billingPeriodsMoreThan12Months", "billingPeriodsLessThan6Months",
      "billingPeriodsMoreThan10Years", "billingPeriodsLessThan3Years",
      "invalidBillingPeriods">>

\* LegacyValidationExceptionFilter.getHighestPriorityError: the codes it can
\* return for the messages of one exception. Without a known code it returns
\* messages[0]; the order of the messages is not kept here, so any of them.
getHighestPriorityError(messages) ==
    LET known == {k \in 1..Len(errorPriority) : errorPriority[k] \in messages}
    IN IF known # {}
       THEN {errorPriority[CHOOSE k \in known : \A j \in known : k <= j]}
       ELSE messages

\* The validation chain at the head of createMembership of the in-memory
\* service: the code of the first check that throws, "" when none does. A
\* comparison with a field that is left out (undefined) is false.
createMembership_validation(body) ==
    IF ~Has(body, "name") \/ body.name = "" \/ ~Has(body, "recurringPrice")
    THEN "missingMandatoryFields"
    ELSE IF body.recurringPrice < 0 THEN "negativeRecurringPrice"
    ELSE IF /\ body.recurringPrice > 100
            /\ Has(body, "paymentMethod") /\ body.paymentMethod = "cash"
    THEN "cashPriceBelow100"
    ELSE IF ~ValidInterval(body) THEN "invalidBillingPeriods"
    ELSE IF ~Has(body, "billingPeriods") THEN ""
    ELSE IF body.billingInterval = "monthly" /\ body.billingPeriods > 12
    THEN "billingPeriodsMoreThan12Months"
    ELSE IF body.billingInterval = "monthly" /\ body.billingPeriods < 6
    THEN "billingPeriodsLessThan6Months"
    ELSE IF body.billingInterval = "yearly" /\ body.billingPeriods < 3
    THEN "billingPeriodsLessThan3Years"
    ELSE IF body.billingInterval = "yearly" /\ body.billingPeriods > 10
    THEN "billingPeriodsMoreThan10Years"
    ELSE ""

\* The part of a validated body the lifecycle calculator reads.
ToDto(body) ==
    [validFrom |-> body.validFrom, billingInterval |-> body.billingInterval,
     billingPeriods |-> body.billingPeriods]

(* ---------------------------------------------------------------------- *)
(* State                                                                   *)
(* ---------------------------------------------------------------------- *)
VARIABLES
    now,                \* the wall clock read by new Date() and dayjs()
    memberships,        \* table memberships: id -> row
    periods,            \* table membership_periods: id -> row
    nextMembershipId,   \* sequence behind memberships.id (SERIAL)
    nextPeriodId,       \* sequence behind membership_periods.id (SERIAL)
    op,                 \* per slot: the request in flight and its locals
    response,           \* the HTTP response sent by the step just taken
    request             \* the body a client posts to POST /memberships

vars == <<now, memberships, periods, nextMembershipId, nextPeriodId, op, response,
          request>>

NoMembership ==
    [id |-> 0, state |-> "none", validFrom |-> NoDate, validUntil |-> NoDate,
     billingInterval |-> "none", billingPeriods |-> 0]

Idle == [pc |-> "idle", id |-> 0, membership |-> NoMembership,
         remaining |-> <<>>, i |-> 0, clock |-> NoDate]

NoResponse == [op |-> "none", status |-> 0, id |-> 0, body |-> <<>>, message |-> {}]

RECURSIVE Ascending(_)
Ascending(S) ==
    IF S = {} THEN <<>>
    ELSE LET x == CHOOSE x \in S : \A y \in S : x <= y
         IN <<x>> \o Ascending(S \ {x})

\* The rows of membership_periods joined to membership id (relations: ['periods']).
PeriodsOf(id) ==
    LET ids == Ascending({p \in DOMAIN periods : periods[p].membershipId = id})
    IN [k \in 1..Len(ids) |-> periods[ids[k]]]

Init ==
    /\ now \in Times
    /\ memberships = <<>>
    /\ periods = <<>>
    /\ nextMembershipId = 1
    /\ nextPeriodId = 1
    /\ op = [s \in Slots |-> Idle]
    /\ response = NoResponse
    /\ request = NoBody

InitCalc ==
    /\ now \in CalcTimes
    /\ memberships = <<>>
    /\ periods = <<>>
    /\ nextMembershipId = 1
    /\ nextPeriodId = 1
    /\ op = [s \in Slots |-> Idle]
    /\ response = NoResponse
    /\ request = NoBody

InitApi ==
    /\ now \in Times
    /\ memberships = <<>>
    /\ periods = <<>>
    /\ nextMembershipId = 1
    /\ nextPeriodId = 1
    /\ op = [s \in Slots |-> Idle]
    /\ response = NoResponse
    /\ request \in Bodies

(* ---------------------------------------------------------------------- *)
(* The clock                                                               *)
(* ---------------------------------------------------------------------- *)
Tick(times) ==
    /\ \E t \in times : valueOf(t) > valueOf(now) /\ now' = t
    /\ response' = NoResponse
    /\ UNCHANGED <<request, memberships, periods, nextMembershipId, nextPeriodId, op>>

(* ---------------------------------------------------------------------- *)
(* createMembership                                                        *)
(* ---------------------------------------------------------------------- *)
\* Lines 30-57: the validity window and the state are computed and the
\* membership row is inserted; the periods are not written yet.
createMembership_saveMembership(s, dto) ==
    /\ op[s].pc = "idle"
    /\ LET validFrom == IF dto.validFrom = NoDate THEN now ELSE dto.validFrom
           validUntil == calculateValidUntil(validFrom, dto.billingInterval,
                                             dto.billingPeriods)
           state == determineMembershipState(validFrom, validUntil, now)
           savedMembership ==
               [id |-> nextMembershipId, state |-> state,
                validFrom |-> validFrom, validUntil |-> validUntil,
                billingInterval |-> dto.billingInterval,
                billingPeriods |-> dto.billingPeriods]
       IN /\ memberships' = memberships @@ (nextMembershipId :> savedMembership)
          /\ op' = [op EXCEPT ![s] = [Idle EXCEPT !.pc = "createSavePeriods",
                                                  !.id = nextMembershipId,
                                                  !.membership = savedMembership]]
    /\ nextMembershipId' = nextMembershipId + 1
    /\ response' = NoResponse
    /\ UNCHANGED <<request, now, periods, nextPeriodId>>

\* createMembership_savePeriods on a table without the foreign key on
\* membership_id.
createMembership_savePeriods_noForeignKey(s) ==
    /\ op[s].pc = "createSavePeriods"
    /\ LET saved == op[s].membership
           periodEntities ==
               createMembershipPeriodEntities(saved.id, saved.validFrom,
                   saved.billingInterval, saved.billingPeriods, now)
           savedPeriods ==
               [k \in 1..Len(periodEntities) |->
                   [id |-> nextPeriodId + k - 1,
                    membershipId |-> periodEntities[k].membershipId,
                    start |-> periodEntities[k].start,
                    end |-> periodEntities[k].end,
                    state |-> periodEntities[k].state]]
       IN /\ nextPeriodId' = nextPeriodId + Len(periodEntities)
          /\ periods' = periods @@
                [p \in {savedPeriods[k].id : k \in 1..Len(savedPeriods)} |->
                    savedPeriods[p - nextPeriodId + 1]]
          /\ response' = [op |-> "create", status |-> 201, id |-> saved.id,
                          body |-> <<[membership |-> saved,
                                      periods |-> savedPeriods]>>,
                          message |-> {}]
    /\ op' = [op EXCEPT ![s] = Idle]
    /\ UNCHANGED <<request, now, memberships, nextMembershipId>>

\* createMembership_savePeriods on a key whose sequence is not advanced by
\* the insert.
createMembership_savePeriods_sequenceNotAdvanced(s) ==
    /\ op[s].pc = "createSavePeriods"
    /\ LET saved == op[s].membership
           periodEntities ==
               createMembershipPeriodEntities(saved.id, saved.validFrom,
                   saved.billingInterval, saved.billingPeriods, now)
           savedPeriods ==
               [k \in 1..Len(periodEntities) |->
                   [id |-> nextPeriodId + k - 1,
                    membershipId |-> periodEntities[k].membershipId,
                    start |-> periodEntities[k].start,
                    end |-> periodEntities[k].end,
                    state |-> periodEntities[k].state]]
       IN /\ nextPeriodId' = nextPeriodId
          /\ IF saved.id \in DOMAIN memberships
             THEN /\ periods' = periods @@
                        [p \in {savedPeriods[k].id : k \in 1..Len(savedPeriods)} |->
                            savedPeriods[p - nextPeriodId + 1]]
                  /\ response' = [op |-> "create", status |-> 201, id |-> saved.id,
                                  body |-> <<[membership |-> saved,
                                              periods |-> savedPeriods]>>,
                                  message |-> {}]
             ELSE /\ periods' = periods
                  /\ response' = [op |-> "create", status |-> 500, id |-> saved.id,
                                  body |-> <<>>, message |-> {}]
    /\ op' = [op EXCEPT ![s] = Idle]
    /\ UNCHANGED <<request, now, memberships, nextMembershipId>>

\* Lines 59-79: the period entities are built (their states from the clock
\* as it is now) and inserted by one save of the array; the insert violates
\* the foreign key when the membership row is gone.
createMembership_savePeriods(s) ==
    /\ op[s].pc = "createSavePeriods"
    /\ LET saved == op[s].membership
           periodEntities ==
               createMembershipPeriodEntities(saved.id, saved.validFrom,
                   saved.billingInterval, saved.billingPeriods, now)
           savedPeriods ==
               [k \in 1..Len(periodEntities) |->
                   [id |-> nextPeriodId + k - 1,
                    membershipId |-> periodEntities[k].membershipId,
                    start |-> periodEntities[k].start,
                    end |-> periodEntities[k].end,
                    state |-> periodEntities[k].state]]
       IN /\ nextPeriodId' = nextPeriodId + Len(periodEntities)
          /\ IF saved.id \in DOMAIN memberships
             THEN /\ periods' = periods @@
                        [p \in {savedPeriods[k].id : k \in 1..Len(savedPeriods)} |->
                            savedPeriods[p - nextPeriodId + 1]]
                  /\ response' = [op |-> "create", status |-> 201, id |-> saved.id,
                                  body |-> <<[membership |-> saved,
                                              periods |-> savedPeriods]>>,
                                  message |-> {}]
             ELSE /\ periods' = periods
                  /\ response' = [op |-> "create", status |-> 500, id |-> saved.id,
                                  body |-> <<>>, message |-> {}]
    /\ op' = [op EXCEPT ![s] = Idle]
    /\ UNCHANGED <<request, now, memberships, nextMembershipId>>

\* A client sends its next body to POST /memberships.
post(body) ==
    /\ op[1].pc = "idle"
    /\ request # body
    /\ request' = body
    /\ response' = NoResponse
    /\ UNCHANGED <<now, memberships, periods, nextMembershipId, nextPeriodId, op>>

\* MembershipsController.create with the body handed to the service as it
\* came.
create_unvalidated(s) ==
    createMembership_saveMembership(s, ToDto(request))

\* MembershipsController.create: @Body(ValidationPipe) validates the body
\* before the handler runs; a body with messages is answered 400 with them
\* and the service is not called, a clean body goes to createMembership.
create(s) ==
    IF ValidationMessages(request) # {}
    THEN /\ op[s].pc = "idle"
         /\ response' = [op |-> "create", status |-> 400, id |-> 0, body |-> <<>>,
                         message |-> ValidationMessages(request)]
         /\ UNCHANGED <<request, now, memberships, periods, nextMembershipId,
                        nextPeriodId, op>>
    ELSE createMembership_saveMembership(s, ToDto(request))

(* ---------------------------------------------------------------------- *)
(* terminateMembership                                                     *)
(* ---------------------------------------------------------------------- *)
Terminate(row) == [row EXCEPT !.state = "terminated"]

\* remainingPeriods without the filter: every loaded period is kept.
remainingPeriods_unfiltered(loaded, clock) == loaded

\* Lines 100-102: the periods that have not ended yet.
remainingPeriods(loaded, clock) ==
    SelectSeq(loaded, LAMBDA period : valueOf(period.end) > valueOf(clock))

\* TerminationAllowed without the isSame(now) half of isInLastPeriod.
TerminationAllowed_startExclusive(found, membership, loaded, clock) ==
    LET remaining == remainingPeriods(loaded, clock)
        isValidState == membership.state = "active" \/ membership.state = "pending"
        isInLastPeriod == valueOf(remaining[1].start) < valueOf(clock)
    IN IF ~found THEN FALSE
       ELSE IF ~isValidState THEN FALSE
       ELSE IF Len(remaining) = 1 /\ isInLastPeriod THEN FALSE
       ELSE IF Len(remaining) = 0 THEN FALSE
       ELSE TRUE

\* TerminationAllowed without the check of the stored state.
TerminationAllowed_stateUnchecked(found, membership, loaded, clock) ==
    LET remaining == remainingPeriods(loaded, clock)
        isInLastPeriod ==
            \/ valueOf(remaining[1].start) < valueOf(clock)
            \/ valueOf(remaining[1].start) = valueOf(clock)
    IN IF ~found THEN FALSE
       ELSE IF Len(remaining) = 1 /\ isInLastPeriod THEN FALSE
       ELSE IF Len(remaining) = 0 THEN FALSE
       ELSE TRUE

\* Lines 88-120: what the checks after findOne decide from the loaded
\* membership, its loaded periods and the clock.
TerminationAllowed(found, membership, loaded, clock) ==
    LET remaining == remainingPeriods(loaded, clock)
        isValidState == membership.state = "active" \/ membership.state = "pending"
        isInLastPeriod ==
            \/ valueOf(remaining[1].start) < valueOf(clock)
            \/ valueOf(remaining[1].start) = valueOf(clock)
    IN IF ~found THEN FALSE
       ELSE IF ~isValidState THEN FALSE
       ELSE IF Len(remaining) = 1 /\ isInLastPeriod THEN FALSE
       ELSE IF Len(remaining) = 0 THEN FALSE
       ELSE TRUE

\* terminateMembership_findOne with membership.state = 'terminated' saved
\* as soon as the state check has passed, before the periods are looked at.
terminateMembership_findOne_writesFirst(s, id) ==
    /\ op[s].pc = "idle"
    /\ LET found == id \in DOMAIN memberships
           membership == IF found THEN memberships[id] ELSE NoMembership
           loaded == IF found THEN PeriodsOf(id) ELSE <<>>
       IN /\ memberships' =
                IF found /\ membership.state \in {"active", "pending"}
                THEN [memberships EXCEPT ![id] = Terminate(membership)]
                ELSE memberships
          /\ IF TerminationAllowed(found, membership, loaded, now)
             THEN /\ op' = [op EXCEPT ![s] =
                               [Idle EXCEPT !.pc = "terminateSavePeriods",
                                            !.id = id,
                                            !.membership = membership,
                                            !.remaining = remainingPeriods(loaded, now),
                                            !.i = 1,
                                            !.clock = now]]
                  /\ response' = NoResponse
             ELSE /\ op' = op
                  /\ response' = [op |-> "terminate", status |-> 400, id |-> id,
                                  body |-> <<>>, message |-> {}]
    /\ UNCHANGED <<request, now, periods, nextMembershipId, nextPeriodId>>

\* Lines 83-120: findOne with the periods relation, then the checks; a
\* rejection returns false at once, which the controller turns into a 400.
terminateMembership_findOne(s, id) ==
    /\ op[s].pc = "idle"
    /\ LET found == id \in DOMAIN memberships
           membership == IF found THEN memberships[id] ELSE NoMembership
           loaded == IF found THEN PeriodsOf(id) ELSE <<>>
       IN IF TerminationAllowed(found, membership, loaded, now)
          THEN /\ op' = [op EXCEPT ![s] =
                            [Idle EXCEPT !.pc = "terminateSavePeriods",
                                         !.id = id,
                                         !.membership = membership,
                                         !.remaining = remainingPeriods(loaded, now),
                                         !.i = 1,
                                         !.clock = now]]
               /\ response' = NoResponse
          ELSE /\ op' = op
               /\ response' = [op |-> "terminate", status |-> 400, id |-> id,
                               body |-> <<>>, message |-> {}]
    /\ UNCHANGED <<request, now, memberships, periods, nextMembershipId, nextPeriodId>>

\* Lines 123-126, one iteration: save(period) updates the row when it is
\* still there; when it is gone save inserts it, and the insert violates the
\* foreign key because rows only disappear with their membership.
terminateMembership_savePeriod(s) ==
    /\ op[s].pc = "terminateSavePeriods"
    /\ LET period == Terminate(op[s].remaining[op[s].i])
       IN IF period.id \in DOMAIN periods
          THEN /\ periods' = [periods EXCEPT ![period.id] = period]
               /\ op' = [op EXCEPT ![s].i = @ + 1,
                                   ![s].pc = IF op[s].i = Len(op[s].remaining)
                                             THEN "terminateSaveMembership"
                                             ELSE "terminateSavePeriods"]
               /\ response' = NoResponse
          ELSE /\ periods' = periods
               /\ op' = [op EXCEPT ![s] = Idle]
               /\ response' = [op |-> "terminate", status |-> 500, id |-> op[s].id,
                               body |-> <<>>, message |-> {}]
    /\ UNCHANGED <<request, now, memberships, nextMembershipId, nextPeriodId>>

\* Lines 129-132: save(membership) updates the row, or inserts it under its
\* old id when the row is gone; then true is returned (200).
terminateMembership_saveMembership(s) ==
    /\ op[s].pc = "terminateSaveMembership"
    /\ LET membership == Terminate(op[s].membership)
       IN memberships' =
            IF membership.id \in DOMAIN memberships
            THEN [memberships EXCEPT ![membership.id] = membership]
            ELSE memberships @@ (membership.id :> membership)
    /\ op' = [op EXCEPT ![s] = Idle]
    /\ response' = [op |-> "terminate", status |-> 200, id |-> op[s].id, body |-> <<>>, message |-> {}]
    /\ UNCHANGED <<request, now, periods, nextMembershipId, nextPeriodId>>

(* ---------------------------------------------------------------------- *)
(* getAllMemberships                                                       *)
(* ---------------------------------------------------------------------- *)
\* getAllMemberships without the join condition on membership_id.
getAllMemberships_unjoined ==
    /\ LET ids == Ascending(DOMAIN memberships)
           all == Ascending(DOMAIN periods)
       IN response' = [op |-> "getAll", status |-> 200, id |-> 0,
                       body |-> [k \in 1..Len(ids) |->
                                    [membership |-> memberships[ids[k]],
                                     periods |-> [i \in 1..Len(all) |-> periods[all[i]]]]],
                       message |-> {}]
    /\ UNCHANGED <<request, now, memberships, periods, nextMembershipId, nextPeriodId, op>>

\* One find with the periods relation, ordered by id; rows are returned as
\* stored.
getAllMemberships ==
    /\ LET ids == Ascending(DOMAIN memberships)
       IN response' = [op |-> "getAll", status |-> 200, id |-> 0,
                       body |-> [k \in 1..Len(ids) |->
                                    [membership |-> memberships[ids[k]],
                                     periods |-> PeriodsOf(ids[k])]],
                       message |-> {}]
    /\ UNCHANGED <<request, now, memberships, periods, nextMembershipId, nextPeriodId, op>>

(* ---------------------------------------------------------------------- *)
(* deleteMembership                                                        *)
(* ---------------------------------------------------------------------- *)
\* deleteMembership_findOne without the existence check.
deleteMembership_findOne_unchecked(s, id) ==
    /\ op[s].pc = "idle"
    /\ op' = [op EXCEPT ![s] = [Idle EXCEPT !.pc = "deleteRemove", !.id = id]]
    /\ response' = NoResponse
    /\ UNCHANGED <<request, now, memberships, periods, nextMembershipId, nextPeriodId>>

\* Lines 167-173: findOne; NotFoundException (404) when there is no row.
deleteMembership_findOne(s, id) ==
    /\ op[s].pc = "idle"
    /\ IF id \in DOMAIN memberships
       THEN /\ op' = [op EXCEPT ![s] = [Idle EXCEPT !.pc = "deleteRemove",
                                                    !.id = id,
                                                    !.membership = memberships[id]]]
            /\ response' = NoResponse
       ELSE /\ op' = op
            /\ response' = [op |-> "delete", status |-> 404, id |-> id, body |-> <<>>, message |-> {}]
    /\ UNCHANGED <<request, now, memberships, periods, nextMembershipId, nextPeriodId>>

\* deleteMembership_remove on a schema without ON DELETE CASCADE handling:
\* only the membership row goes.
deleteMembership_remove_noCascade(s) ==
    /\ op[s].pc = "deleteRemove"
    /\ memberships' = [m \in DOMAIN memberships \ {op[s].id} |-> memberships[m]]
    /\ op' = [op EXCEPT ![s] = Idle]
    /\ response' = [op |-> "delete", status |-> 200, id |-> op[s].id, body |-> <<>>,
                    message |-> {}]
    /\ UNCHANGED <<request, now, periods, nextMembershipId, nextPeriodId>>

\* Lines 176-180: remove(membership); ON DELETE CASCADE removes its periods.
deleteMembership_remove(s) ==
    /\ op[s].pc = "deleteRemove"
    /\ memberships' = [m \in DOMAIN memberships \ {op[s].id} |-> memberships[m]]
    /\ periods' = [p \in {q \in DOMAIN periods : periods[q].membershipId # op[s].id} |->
                      periods[p]]
    /\ op' = [op EXCEPT ![s] = Idle]
    /\ response' = [op |-> "delete", status |-> 200, id |-> op[s].id, body |-> <<>>, message |-> {}]
    /\ UNCHANGED <<request, now, nextMembershipId, nextPeriodId>>

(* ---------------------------------------------------------------------- *)
(* A save that the database rejects (connection lost, statement timeout):  *)
(* the awaited promise rejects, nothing is caught, the request ends in 500 *)
(* ---------------------------------------------------------------------- *)
saveRejected(s) ==
    /\ op[s].pc \in {"createSavePeriods", "terminateSavePeriods", "terminateSaveMembership"}
    /\ response' = [op |-> IF op[s].pc = "createSavePeriods" THEN "create" ELSE "terminate",
                    status |-> 500, id |-> op[s].id, body |-> <<>>, message |-> {}]
    /\ op' = [op EXCEPT ![s] = Idle]
    /\ UNCHANGED <<request, now, memberships, periods, nextMembershipId, nextPeriodId>>

(* ---------------------------------------------------------------------- *)
(* Specifications                                                          *)
(* ---------------------------------------------------------------------- *)
Ids == 1..(MaxMemberships + 1)

\* Slots are interchangeable: a new request takes the lowest free one.
Free(s) == op[s].pc = "idle" /\ \A t \in Slots : t < s => op[t].pc # "idle"

\* Requests of several clients, interleaved at the awaits.
Next ==
    \/ Tick(Times)
    \/ \E s \in Slots, dto \in Weekly(Requests(ValidFroms, MaxPeriods)) :
          /\ Free(s) /\ nextMembershipId <= MaxMemberships
          /\ createMembership_saveMembership(s, dto)
    \/ \E s \in Slots : createMembership_savePeriods(s)
    \/ \E s \in Slots, id \in Ids : Free(s) /\ terminateMembership_findOne(s, id)
    \/ \E s \in Slots : terminateMembership_savePeriod(s)
    \/ \E s \in Slots : terminateMembership_saveMembership(s)
    \/ getAllMemberships
    \/ \E s \in Slots, id \in Ids : Free(s) /\ deleteMembership_findOne(s, id)
    \/ \E s \in Slots : deleteMembership_remove(s)
    \/ \E s \in Slots : saveRejected(s)

Spec == Init /\ [][Next]_vars

\* One client, one request at a time, one membership stored at a time, over
\* the calendar cases.
NextCalc ==
    \/ Tick(CalcTimes)
    \/ \E dto \in Requests(CalcValidFroms, MaxCalcPeriods) :
          /\ nextMembershipId <= MaxCalcMemberships /\ DOMAIN memberships = {}
          /\ createMembership_saveMembership(1, dto)
    \/ createMembership_savePeriods(1)
    \/ \E id \in 1..MaxCalcMemberships : terminateMembership_findOne(1, id)
    \/ terminateMembership_savePeriod(1)
    \/ terminateMembership_saveMembership(1)
    \/ getAllMemberships
    \/ \E id \in 1..MaxCalcMemberships : deleteMembership_findOne(1, id)
    \/ deleteMembership_remove(1)

SpecCalc == InitCalc /\ [][NextCalc]_vars

\* One client, one request at a time, several memberships stored.
NextSeq ==
    \/ Tick(Times)
    \/ \E dto \in Weekly(Requests(ValidFroms, MaxSeqPeriods)) :
          /\ nextMembershipId <= MaxSeqMemberships
          /\ createMembership_saveMembership(1, dto)
    \/ createMembership_savePeriods(1)
    \/ \E id \in 1..MaxSeqMemberships : terminateMembership_findOne(1, id)
    \/ terminateMembership_savePeriod(1)
    \/ terminateMembership_saveMembership(1)
    \/ getAllMemberships
    \/ \E id \in 1..MaxSeqMemberships : deleteMembership_findOne(1, id)
    \/ deleteMembership_remove(1)

SpecSeq == Init /\ [][NextSeq]_vars

\* One client posting bodies: the first over the bodies the validation
\* tells apart, the later ones from LaterBodies.
NextApi ==
    \/ Tick(Times)
    \/ \E body \in LaterBodies : post(body)
    \/ /\ nextMembershipId <= MaxApiMemberships \/ ValidationMessages(request) # {}
       /\ create(1)
    \/ createMembership_savePeriods(1)
    \/ getAllMemberships

SpecApi == InitApi /\ [][NextApi]_vars

(* ====================================================================== *)
(* Properties                                                              *)
(* ====================================================================== *)
Created == response.op = "create" /\ response.status = 201
CreatedMembership == response.body[1].membership
CreatedPeriods == response.body[1].periods

\* C1: every completed creation returns and stores exactly billingPeriods
\* periods for the new membership; the first starts at validFrom, each one
\* ends after it starts, and each one ends where the next starts.
C1_PeriodsCountedAndContiguous ==
    Created =>
        /\ Len(CreatedPeriods) = CreatedMembership.billingPeriods
        /\ PeriodsOf(response.id) = CreatedPeriods
        /\ CreatedPeriods[1].start = CreatedMembership.validFrom
        /\ \A k \in 1..Len(CreatedPeriods) :
              /\ CreatedPeriods[k].membershipId = CreatedMembership.id
              /\ valueOf(CreatedPeriods[k].start) < valueOf(CreatedPeriods[k].end)
        /\ \A k \in 1..(Len(CreatedPeriods) - 1) :
              CreatedPeriods[k].end = CreatedPeriods[k + 1].start

\* A monthly membership starting on the 31st has just been created with all
\* its periods.
C1_Witness ==
    /\ Created
    /\ CreatedMembership.billingInterval = "monthly"
    /\ CreatedMembership.validFrom = D(2024, 0, 31)
    /\ Len(CreatedPeriods) = 7

\* C2: for every completed creation the end of the last period equals the
\* membership's validUntil.
C2_LastPeriodEndsAtValidUntil ==
    Created => CreatedPeriods[Len(CreatedPeriods)].end = CreatedMembership.validUntil

\* The date k calendar months after date, clamped to the last day of the
\* target month.
ClampedMonths(date, k) ==
    LET y == date.y + ((date.m + k) \div 12)
        m == (date.m + k) % 12
    IN D(y, m, IF date.d > DaysInMonth(y, m) THEN DaysInMonth(y, m) ELSE date.d)

\* C3: a validUntil reached by calendar months (monthly: billingPeriods
\* months, yearly: 12 * billingPeriods months) lies in the target month, on
\* validFrom's day of month or on the month's last day when that day does
\* not exist.
C3_MonthAdvanceClamps ==
    \A id \in DOMAIN memberships :
        LET membership == memberships[id]
        IN /\ membership.billingInterval = "monthly" =>
                membership.validUntil =
                    ClampedMonths(membership.validFrom, membership.billingPeriods)
           /\ membership.billingInterval = "yearly" =>
                membership.validUntil =
                    ClampedMonths(membership.validFrom, 12 * membership.billingPeriods)

\* C10: the state stored by a creation is pending when validFrom is after
\* the clock, else expired when validUntil is before it, else active, and
\* never terminated.
C10_StateDerivedAtCreation ==
    [][nextMembershipId' # nextMembershipId =>
        LET membership == memberships'[nextMembershipId]
            from == valueOf(membership.validFrom)
            until == valueOf(membership.validUntil)
            clock == valueOf(now)
        IN /\ membership.state \in {"pending", "expired", "active"}
           /\ membership.state = "pending" <=> from > clock
           /\ membership.state = "expired" <=> (from <= clock /\ until < clock)
           /\ membership.state = "active" <=> (from <= clock /\ until >= clock)]_vars

\* A membership whose validFrom was left out (so it starts now) has just
\* been stored as active.
C10_Witness ==
    /\ op[1].pc = "createSavePeriods"
    /\ op[1].membership.validFrom = now
    /\ op[1].membership.state = "active"

\* The ids of the stored periods of membership id that end after the clock.
EndingAfter(id, clock) ==
    {p \in DOMAIN periods :
        periods[p].membershipId = id /\ valueOf(periods[p].end) > valueOf(clock)}

C4_Eligible(id) ==
    /\ id \in DOMAIN memberships
    /\ memberships[id].state \in {"active", "pending"}
    /\ EndingAfter(id, now) # {}
    /\ ~(/\ Cardinality(EndingAfter(id, now)) = 1
         /\ \A p \in EndingAfter(id, now) : valueOf(periods[p].start) <= valueOf(now))

\* C4: a call of terminateMembership(id) is accepted exactly when the
\* membership exists, its stored state is active or pending, some period
\* ends after now, and it is not the case that exactly one period ends
\* after now and that one has started; otherwise it is rejected (400). An
\* accepted call ends in success.
C4_TerminationDecidedByPreconditions ==
    [][/\ op[1].pc = "idle" /\ op'[1].pc = "terminateSavePeriods" =>
            C4_Eligible(op'[1].id)
       /\ op[1].pc = "idle" /\ response'.op = "terminate" =>
            response'.status = 400 /\ ~C4_Eligible(response'.id)
       /\ op[1].pc = "terminateSavePeriods" /\ op'[1] # op[1] =>
            response'.status = 0
       /\ op[1].pc = "terminateSaveMembership" /\ op'[1] # op[1] =>
            response'.op = "terminate" /\ response'.status = 200]_vars

\* A membership with a single period has just been terminated (its one
\* remaining period had not started).
C4_Witness ==
    /\ response.op = "terminate" /\ response.status = 200
    /\ response.id \in DOMAIN memberships
    /\ memberships[response.id].billingPeriods = 1
    /\ memberships[response.id].state = "terminated"

\* C5: the steps of an accepted terminateMembership(id) change nothing but
\* the state of the membership and of its periods that end after the clock
\* read at the call, and when it reports success all of those and the
\* membership are terminated; ended periods keep their state, dates stay,
\* other memberships and their periods stay.
C5_TerminationFrame ==
    [][op[1].pc \in {"terminateSavePeriods", "terminateSaveMembership"} /\ op'[1] # op[1] =>
        LET id == op[1].id
            clock == op[1].clock
        IN /\ DOMAIN memberships' = DOMAIN memberships
           /\ DOMAIN periods' = DOMAIN periods
           /\ \A m \in DOMAIN memberships :
                /\ m # id => memberships'[m] = memberships[m]
                /\ \/ memberships'[m] = memberships[m]
                   \/ memberships'[m] = [memberships[m] EXCEPT !.state = "terminated"]
           /\ \A p \in DOMAIN periods :
                /\ periods[p].membershipId # id => periods'[p] = periods[p]
                /\ valueOf(periods[p].end) <= valueOf(clock) => periods'[p] = periods[p]
                /\ \/ periods'[p] = periods[p]
                   \/ periods'[p] = [periods[p] EXCEPT !.state = "terminated"]
           /\ response'.op = "terminate" /\ response'.status = 200 =>
                /\ memberships'[id].state = "terminated"
                /\ \A p \in DOMAIN periods :
                     (periods[p].membershipId = id
                        /\ valueOf(periods[p].end) > valueOf(clock)) =>
                     periods'[p].state = "terminated"]_vars

\* A termination has just succeeded on a membership that keeps an ended
\* period in its stored state while another, untouched membership is stored.
C5_Witness ==
    /\ response.op = "terminate" /\ response.status = 200
    /\ \E p \in DOMAIN periods :
          /\ periods[p].membershipId = response.id
          /\ periods[p].state # "terminated"
    /\ \E p \in DOMAIN periods :
          /\ periods[p].membershipId = response.id
          /\ periods[p].state = "terminated"
    /\ \E m \in DOMAIN memberships :
          /\ m # response.id
          /\ memberships[m].state # "terminated"
          /\ PeriodsOf(m) # <<>>

\* C6: no list returned by getAllMemberships shows a membership with some
\* but not all of its remaining periods (end after now) terminated, nor with
\* all of them terminated while the membership is still active or pending.
C6_NoPartialTerminationObserved ==
    response.op = "getAll" =>
        \A k \in 1..Len(response.body) :
            LET entry == response.body[k]
                rem == {j \in 1..Len(entry.periods) :
                           valueOf(entry.periods[j].end) > valueOf(now)}
                done == {j \in rem : entry.periods[j].state = "terminated"}
            IN /\ done = {} \/ done = rem
               /\ ~(rem # {} /\ done = rem
                      /\ entry.membership.state \in {"active", "pending"})

\* C7: no list returned by getAllMemberships shows a membership whose number
\* of periods differs from its billingPeriods.
C7_NoMembershipWithoutPeriodsObserved ==
    response.op = "getAll" =>
        \A k \in 1..Len(response.body) :
            Len(response.body[k].periods) = response.body[k].membership.billingPeriods

\* C8: when a request has ended in an error after its first write, nothing
\* it wrote remains: no membership row of a failed creation, no terminated
\* period of a failed termination.
C8_FailedWriteLeavesNoTrace ==
    response.status = 500 =>
        /\ response.op = "create" => response.id \notin DOMAIN memberships
        /\ response.op = "terminate" =>
              \A p \in DOMAIN periods :
                  periods[p].membershipId = response.id =>
                      periods[p].state # "terminated"

\* The derivation of the membership state from the dates and the clock.
DerivedState(membership, clock) ==
    IF valueOf(membership.validFrom) > valueOf(clock) THEN "pending"
    ELSE IF valueOf(membership.validUntil) < valueOf(clock) THEN "expired"
    ELSE "active"

\* C9: at every moment every stored membership that is not terminated has a
\* stored state, and a listed state, equal to the derivation from its dates
\* and the current clock.
C9_StoredStateFollowsClock ==
    /\ \A id \in DOMAIN memberships :
          memberships[id].state # "terminated" =>
              memberships[id].state = DerivedState(memberships[id], now)
    /\ response.op = "getAll" =>
          \A k \in 1..Len(response.body) :
              response.body[k].membership.state # "terminated" =>
                  response.body[k].membership.state =
                      DerivedState(response.body[k].membership, now)

\* C11: every stored membership has validUntil strictly after validFrom.
C11_ValidUntilAfterValidFrom ==
    \A id \in DOMAIN memberships :
        valueOf(memberships[id].validUntil) > valueOf(memberships[id].validFrom)

\* A one-week membership that starts on the last day of a month is stored.
C11_Witness ==
    \E id \in DOMAIN memberships :
        /\ memberships[id].billingInterval = "weekly"
        /\ memberships[id].billingPeriods = 1
        /\ memberships[id].validFrom = D(2024, 0, 31)
        /\ memberships[id].validUntil = D(2024, 1, 7)

\* C12: the removing step of deleteMembership(id) takes away the membership
\* row id and every period row of id and nothing else, every other row
\* staying as it was, and it is reached for a stored id whatever its state.
C12_DeleteFrame ==
    [][/\ op[1].pc = "deleteRemove" /\ op'[1] # op[1] =>
            LET id == op[1].id
            IN /\ DOMAIN memberships' = DOMAIN memberships \ {id}
               /\ DOMAIN periods' =
                    {p \in DOMAIN periods : periods[p].membershipId # id}
               /\ \A m \in DOMAIN memberships' : memberships'[m] = memberships[m]
               /\ \A p \in DOMAIN periods' : periods'[p] = periods[p]
               /\ response'.op = "delete" /\ response'.status = 200
               /\ response'.id = id
       /\ op[1].pc = "idle" /\ response'.op = "delete" =>
            response'.id \notin DOMAIN memberships]_vars

\* A deletion has just succeeded: rows of the deleted membership are gone
\* (ids were handed out for them) while another membership keeps its periods.
C12_Witness ==
    /\ response.op = "delete" /\ response.status = 200
    /\ response.id \notin DOMAIN memberships
    /\ \E m \in DOMAIN memberships :
          Len(PeriodsOf(m)) = memberships[m].billingPeriods
    /\ Cardinality(DOMAIN periods) < nextPeriodId - 1

\* C13: deleteMembership(id) for an id without a row answers 404 naming that
\* id and changes no row; it goes on to remove only for a stored id.
C13_DeleteUnknownIs404 ==
    [][op[1].pc = "idle" =>
        /\ response'.op = "delete" =>
              /\ response'.status = 404
              /\ response'.id \notin DOMAIN memberships
              /\ memberships' = memberships /\ periods' = periods
              /\ op' = op
        /\ op'[1].pc = "deleteRemove" => op'[1].id \in DOMAIN memberships]_vars

\* A 404 has just been answered for an id while another membership is stored.
C13_Witness ==
    /\ response.op = "delete" /\ response.status = 404
    /\ DOMAIN memberships # {}
    /\ DOMAIN periods # {}

\* C14: a step on which terminateMembership reports its rejection (400)
\* changes no membership row and no period row.
C14_RejectionWritesNothing ==
    [][response'.op = "terminate" /\ response'.status = 400 =>
        memberships' = memberships /\ periods' = periods]_vars

\* A termination has just been rejected for a stored membership whose state
\* is still pending or active.
C14_Witness ==
    /\ response.op = "terminate" /\ response.status = 400
    /\ response.id \in DOMAIN memberships
    /\ memberships[response.id].state \in {"active", "pending"}
    /\ PeriodsOf(response.id) # <<>>

\* C15: a POST /memberships rejected by validation (400) changes no table,
\* no sequence and starts no service call; a membership row is inserted only
\* on a step whose request has no validation message.
C15_RejectedCreateWritesNothing ==
    [][/\ response'.op = "create" /\ response'.status = 400 =>
            /\ ValidationMessages(request) # {}
            /\ memberships' = memberships /\ periods' = periods
            /\ nextMembershipId' = nextMembershipId /\ nextPeriodId' = nextPeriodId
            /\ op' = op
       /\ DOMAIN memberships' # DOMAIN memberships \/ periods' # periods =>
            ValidationMessages(request) = {}]_vars

\* A body has just been rejected while a membership and its periods, created
\* from an earlier body, are stored.
C15_Witness ==
    /\ response.op = "create" /\ response.status = 400
    /\ response.message # {}
    /\ \E id \in DOMAIN memberships : PeriodsOf(id) # <<>>

\* A body whose every field but billingPeriods passes its rules.
OtherwiseValid(body) ==
    /\ body.absent = {}
    /\ body.name # ""
    /\ body.recurringPrice >= 0
    /\ body.paymentMethod \in {"cash", "credit card"}
    /\ ~(body.paymentMethod = "cash" /\ body.recurringPrice > 100)
    /\ body.billingInterval \in {"monthly", "yearly", "weekly"}
    /\ body.validFrom # InvalidDate

C17_OneCodeByPriority ==
    response.op = "create" /\ response.status = 400 =>
        LET priority == <<"missingMandatoryFields", "negativeRecurringPrice",
                          "cashPriceBelow100", "invalidBillingInterval",
                          "billingPeriodsLessThan6Months",
                          "billingPeriodsMoreThan12Months",
                          "billingPeriodsMoreThan10Years",
                          "weeklyBillingCannotExceed6Months",
                          "validFromMustBeAValidDateString">>
            violated == {k \in 1..Len(priority) :
                            priority[k] \in ValidationMessages(request)}
        IN /\ Cardinality(response.message) = 1
           /\ violated # {} =>
                response.message =
                    {priority[CHOOSE k \in violated : \A j \in violated : k <= j]}

\* C18: a creation carries cashPriceBelow100, and is then rejected, exactly
\* when the body pays in cash a recurringPrice above 100.
C18_CashLimit ==
    response.op = "create" =>
        LET overLimit == /\ Has(request, "paymentMethod") /\ request.paymentMethod = "cash"
                         /\ Has(request, "recurringPrice") /\ request.recurringPrice > 100
        IN /\ "cashPriceBelow100" \in response.message <=> overLimit
           /\ overLimit => response.status = 400

\* A cash body of 101, valid otherwise, has just been refused with the cash
\* code alone.
C18_Witness ==
    /\ response.op = "create" /\ response.status = 400
    /\ request.paymentMethod = "cash" /\ request.recurringPrice = 101
    /\ response.message = {"cashPriceBelow100"}

C20_ListIsTheStore ==
    response.op = "getAll" =>
        LET body == response.body
            rowsOf(id) == {p \in DOMAIN periods : periods[p].membershipId = id}
        IN /\ Len(body) = Cardinality(DOMAIN memberships)
           /\ {body[k].membership.id : k \in 1..Len(body)} = DOMAIN memberships
           /\ \A k \in 1..Len(body) :
                 LET id == body[k].membership.id
                 IN /\ body[k].membership = memberships[id]
                    /\ Len(body[k].periods) = Cardinality(rowsOf(id))
                    /\ {body[k].periods[i] : i \in 1..Len(body[k].periods)}
                         = {periods[p] : p \in rowsOf(id)}
           /\ \A k \in 1..(Len(body) - 1) :
                 body[k].membership.id < body[k + 1].membership.id

\* Two memberships are listed, the second one terminated, each with periods.
C20_Witness ==
    /\ response.op = "getAll"
    /\ Len(response.body) = 2
    /\ response.body[2].membership.state = "terminated"
    /\ \E i \in 1..Len(response.body[2].periods) :
          response.body[2].periods[i].state = "terminated"
    /\ response.body[1].periods # <<>>

\* C21: stored rows are keyed by distinct ids and a new row never takes the
\* id of a stored one, also after deletions: every stored id lies below its
\* sequence, the insert of a membership adds one row under a fresh id, the
\* insert of its periods adds billingPeriods rows under fresh ids, and
\* max-existing-id + 1 (the in-memory assignment) is free as well.
C21_IdsNeverCollide ==
    [][/\ \A id \in DOMAIN memberships :
              memberships[id].id = id /\ id < nextMembershipId
       /\ \A p \in DOMAIN periods : periods[p].id = p /\ p < nextPeriodId
       /\ getNextMembershipId(DOMAIN memberships) \notin DOMAIN memberships
       /\ \A i \in 1..MaxSeqPeriods :
              getMaxPeriodId(DOMAIN periods) + i \notin DOMAIN periods
       /\ op[1].pc = "idle" /\ op'[1].pc = "createSavePeriods" =>
              /\ op'[1].id \notin DOMAIN memberships
              /\ DOMAIN memberships' = DOMAIN memberships \cup {op'[1].id}
              /\ \A id \in DOMAIN memberships : memberships'[id] = memberships[id]
       /\ response'.op = "create" /\ response'.status = 201 =>
              LET new == {response'.body[1].periods[k].id :
                             k \in 1..Len(response'.body[1].periods)}
              IN /\ new \cap DOMAIN periods = {}
                 /\ Cardinality(new) = response'.body[1].membership.billingPeriods
                 /\ DOMAIN periods' = DOMAIN periods \cup new
                 /\ \A p \in DOMAIN periods : periods'[p] = periods[p]]_vars

\* A membership is stored under id 2 after the one with id 1 was deleted,
\* with period ids above those the deleted membership had.
C21_Witness ==
    /\ DOMAIN memberships = {2}
    /\ DOMAIN periods # {}
    /\ \A p \in DOMAIN periods : p > 1 /\ periods[p].membershipId = 2
    /\ Cardinality(DOMAIN periods) < nextPeriodId - 1

\* C22: on every body with a well-formed or absent validFrom, the DTO
\* validation reduced by the filter and the validation chain of the
\* in-memory service agree: both accept, or both reject with the same code.
C22_ValidationsAgree ==
    response.op = "create" /\ request.validFrom # InvalidDate =>
        LET legacy == createMembership_validation(request)
            messages == ValidationMessages(request)
        IN IF messages = {} THEN legacy = ""
           ELSE legacy \in getHighestPriorityError(messages)

\* C23: every period returned by a creation has the state of its own dates
\* at the time of creation: pending when it starts after now, active exactly
\* when start <= now < end, expired when it ended before now.
C23_PeriodStateHalfOpen ==
    Created =>
        \A k \in 1..Len(CreatedPeriods) :
            LET period == CreatedPeriods[k]
            IN /\ valueOf(period.start) > valueOf(now) => period.state = "pending"
               /\ period.state = "active" <=>
                    /\ valueOf(period.start) <= valueOf(now)
                    /\ valueOf(now) < valueOf(period.end)
               /\ valueOf(period.end) < valueOf(now) => period.state = "expired"

C25_TerminateUnknownIs404 ==
    response.op = "terminate" /\ response.status # 200 =>
        IF response.id \in DOMAIN memberships
        THEN response.status = 400
        ELSE response.status = 404

\* C26: in every state, also between the steps of interleaved requests,
\* every stored period carries the id of a stored membership.
C26_NoOrphanPeriod ==
    \A p \in DOMAIN periods : periods[p].membershipId \in DOMAIN memberships

\* A deletion has just succeeded between the two saves of a creation: the
\* creation still holds the membership it saved, whose row is gone.
C26_Witness ==
    /\ response.op = "delete" /\ response.status = 200
    /\ \E s \in Slots :
          /\ op[s].pc = "createSavePeriods"
          /\ op[s].id = response.id
          /\ op[s].id \notin DOMAIN memberships

\* C27: a membership row appears only under the next id of the sequence, so
\* no row comes back under the id of a deleted membership.
C27_DeletedStaysDeleted ==
    [][\A id \in DOMAIN memberships' \ DOMAIN memberships :
          id = nextMembershipId]_vars

\* C28: the membership returned by a creation is pending exactly when all
\* its periods are pending, expired exactly when all are expired, and active
\* exactly when at least one period is active.
C28_MembershipStateMatchesPeriods ==
    Created =>
        LET states == {CreatedPeriods[k].state : k \in 1..Len(CreatedPeriods)}
        IN /\ CreatedMembership.state = "pending" <=> states = {"pending"}
           /\ CreatedMembership.state = "expired" <=> states = {"expired"}
           /\ CreatedMembership.state = "active" <=> "active" \in states

\* C29: the periods a termination takes as remaining are exactly the loaded
\* periods whose dates make them pending or active at that time.
C29_RemainingAreTheLivePeriods ==
    [][op[1].pc = "idle" /\ op'[1].pc = "terminateSavePeriods" =>
        {op'[1].remaining[k].id : k \in 1..Len(op'[1].remaining)}
            = {p \in DOMAIN periods :
                  /\ periods[p].membershipId = op'[1].id
                  /\ determinePeriodState(periods[p].start, periods[p].end, now)
                        \in {"pending", "active"}}]_vars

\* C30: when a termination has succeeded, every stored period of that
\* membership is terminated or expired.
C30_NoLivePeriodAfterTermination ==
    response.op = "terminate" /\ response.status = 200 =>
        \A p \in DOMAIN periods :
            periods[p].membershipId = response.id =>
                periods[p].state \in {"terminated", "expired"}

====
